---- MODULE Spec2Model ----
(***************************************************************************)
(* Master-mode SPI driver of stm32h7xx-hal (src/src/spi.rs).               *)
(*                                                                         *)
(* The model follows the constructor Spi::$spiX statement by statement     *)
(* (one action per register access or panicking computation), then the    *)
(* operations of a constructed driver: FullDuplex::read / send, listen /   *)
(* unlisten, the status queries and free.  The status register is owned    *)
(* by the hardware; it changes by the actions HwSet and ExternalClear.      *)
(***************************************************************************)
EXTENDS Integers, Naturals, Sequences, FiniteSets, TLC

VARIABLES
    pc,               \* position of the driver (constructor statement, "enabled", ...)
    panic,            \* "none", or the panic that ended the constructor
    spi,              \* the peripheral instance handed to the constructor
    freq,             \* freq.into().0, the requested bit rate in Hz
    config,           \* the Config handed to the constructor
    clocks,           \* ccdr.clocks, the frozen clock tree
    ccip,             \* the kernel clock selectors of RCC (d2ccip1r, d3ccipr)
    overflow_checks,  \* build profile: TRUE = integer overflow panics (debug)
    path,             \* the constructor called: "spi", "spi_unchecked" or "spiX"
    pins,             \* the (SCK, MISO, MOSI) types handed to spi, else NoPins
    rcc_en,           \* the peripheral clock enable bits set in RCC
    spi_ker_ck,       \* local of the constructor
    mbr,              \* local of the constructor
    cfg1, cfg2, cr1, cr2,   \* configuration and control registers
    ier,              \* interrupt enable register
    sr,               \* status register (hardware owned)
    txdr, rxdr,       \* data registers
    last,             \* the last driver call and what it returned
    nstart,           \* number of CSTART strobes written
    nsent             \* number of send calls that returned Ok

inputs == <<spi, freq, config, clocks, ccip, overflow_checks, path, pins>>
locals == <<spi_ker_ck, mbr>>
cregs  == <<cfg1, cfg2, cr1, cr2>>
xfer   == <<ier, sr, txdr, rxdr, last, nstart, nsent>>
vars   == <<pc, panic, inputs, rcc_en, locals, cregs, xfer>>

(***************************************************************************)
(* Bounds of the model.                                                    *)
(***************************************************************************)
MaxKer      == 48     \* kernel clocks 1..MaxKer Hz besides the named ones
MaxReq      == 4      \* requested bit rates 0..MaxReq Hz besides the named ones
MaxDelayNum == 6      \* cs_delay mantissas -1..MaxDelayNum
MaxSent     == 2      \* at most this many words are accepted by send

(***************************************************************************)
(* Option<Hertz>.                                                          *)
(***************************************************************************)
Some(hz) == [tag |-> "Some", val |-> hz]
None     == [tag |-> "None", val |-> 0]

(***************************************************************************)
(* Mode, CommunicationMode, Config and its builder.                        *)
(***************************************************************************)
MODE_0 == [polarity |-> "IdleLow",  phase |-> "CaptureOnFirstTransition"]
MODE_1 == [polarity |-> "IdleLow",  phase |-> "CaptureOnSecondTransition"]
MODE_2 == [polarity |-> "IdleHigh", phase |-> "CaptureOnFirstTransition"]
MODE_3 == [polarity |-> "IdleHigh", phase |-> "CaptureOnSecondTransition"]
Modes  == {MODE_0, MODE_1, MODE_2, MODE_3}

CommunicationMode ==
    [FullDuplex |-> 0, Transmitter |-> 1, Receiver |-> 2, HalfDuplex |-> 3]

\* A finite f32 is kept as num * 2^exp, |num| < 2^24; 0.0 is [num |-> 0, exp |-> 0].
F32(num, exp) == [num |-> num, exp |-> exp]

Config_new(mode) ==
    [ mode               |-> mode,
      swap_miso_mosi     |-> FALSE,
      cs_delay           |-> F32(0, 0),
      frame_size         |-> 8,
      managed_cs         |-> FALSE,
      communication_mode |-> "FullDuplex",
      t_size             |-> 0 ]

Config_swap_mosi_miso(c)         == [c EXCEPT !.swap_miso_mosi = TRUE]
Config_cs_delay(c, delay)        == [c EXCEPT !.cs_delay = delay]
Config_frame_size(c, frame_size) == [c EXCEPT !.frame_size = frame_size]
Config_manage_cs(c)              == [c EXCEPT !.managed_cs = TRUE]
Config_communication_mode(c, comms) == [c EXCEPT !.communication_mode = comms]
Config_transfer_size(c, size)    == [c EXCEPT !.t_size = size]

(***************************************************************************)
(* The spi! table: instance -> (constructor, enable register, enable bit). *)
(***************************************************************************)
SpiInstances == {"SPI1", "SPI2", "SPI3", "SPI4", "SPI5", "SPI6"}

SpiTable ==
    [ SPI1 |-> [apbXenr |-> "apb2enr",  spiXen |-> "spi1en"],
      SPI2 |-> [apbXenr |-> "apb1lenr", spiXen |-> "spi2en"],
      SPI3 |-> [apbXenr |-> "apb1lenr", spiXen |-> "spi3en"],
      SPI4 |-> [apbXenr |-> "apb2enr",  spiXen |-> "spi4en"],
      SPI5 |-> [apbXenr |-> "apb2enr",  spiXen |-> "spi5en"],
      SPI6 |-> [apbXenr |-> "apb4enr",  spiXen |-> "spi6en"] ]

(***************************************************************************)
(* The pins! table: the types that implement PinSck / PinMiso / PinMosi    *)
(* for each instance.  A pin type is written PIN_AF.                       *)
(***************************************************************************)
PinSck ==
    [ SPI1 |-> {"NoSck", "PA5_AF5", "PB3_AF5", "PG11_AF5"},
      SPI2 |-> {"NoSck", "PA9_AF5", "PA12_AF5", "PB10_AF5", "PB13_AF5",
                "PD3_AF5", "PI1_AF5"},
      SPI3 |-> {"NoSck", "PB3_AF6", "PC10_AF6"},
      SPI4 |-> {"NoSck", "PE2_AF5", "PE12_AF5"},
      SPI5 |-> {"NoSck", "PF7_AF5", "PH6_AF5", "PK0_AF5"},
      SPI6 |-> {"NoSck", "PA5_AF8", "PB3_AF8", "PG13_AF5"} ]

PinMiso ==
    [ SPI1 |-> {"NoMiso", "PA6_AF5", "PB4_AF5", "PG9_AF5"},
      SPI2 |-> {"NoMiso", "PB14_AF5", "PC2_AF5", "PI2_AF5"},
      SPI3 |-> {"NoMiso", "PB4_AF6", "PC11_AF6"},
      SPI4 |-> {"NoMiso", "PE5_AF5", "PE13_AF5"},
      SPI5 |-> {"NoMiso", "PF8_AF5", "PH7_AF5", "PJ11_AF5"},
      SPI6 |-> {"NoMiso", "PA6_AF8", "PB4_AF8", "PG12_AF5"} ]

PinMosi ==
    [ SPI1 |-> {"NoMosi", "PA7_AF5", "PB5_AF5", "PD7_AF5"},
      SPI2 |-> {"NoMosi", "PB15_AF5", "PC1_AF5", "PC3_AF5", "PI3_AF5"},
      SPI3 |-> {"NoMosi", "PB2_AF7", "PB5_AF7", "PC12_AF6", "PD6_AF5"},
      SPI4 |-> {"NoMosi", "PE6_AF5", "PE14_AF5"},
      SPI5 |-> {"NoMosi", "PF9_AF5", "PF11_AF5", "PJ10_AF5"},
      SPI6 |-> {"NoMosi", "PA7_AF8", "PB5_AF8", "PG14_AF5"} ]

\* the blanket impl with the MOSI bound left out
Pins_no_mosi(SPIX, t) ==
    /\ t.sck \in PinSck[SPIX]
    /\ t.miso \in PinMiso[SPIX]

\* impl Pins<SPI> for (SCK, MISO, MOSI) where SCK: PinSck<SPI>, MISO: .., MOSI: ..
Pins(SPIX, t) ==
    /\ t.sck \in PinSck[SPIX]
    /\ t.miso \in PinMiso[SPIX]
    /\ t.mosi \in PinMosi[SPIX]

\* the constructors of a driver: SpiExt::spi takes PINS: Pins<SPI>;
\* SpiExt::spi_unchecked and Spi::$spiX take no pins
Constructors == {"spi", "spi_unchecked", "spiX"}
NoPins  == [sck |-> "-", miso |-> "-", mosi |-> "-"]
Fillers == [sck |-> "NoSck", miso |-> "NoMiso", mosi |-> "NoMosi"]

\* what the bounds of the constructor demand of its arguments
compiles(ctor, SPIX, t) ==
    IF ctor = "spi" THEN Pins(SPIX, t) ELSE t = NoPins

(***************************************************************************)
(* Kernel clock resolution.  The result is Some(hz), None, or the panic    *)
(* the match arm raises.                                                   *)
(***************************************************************************)
SPI123SEL_A == {"PLL1_Q", "PLL2_P", "PLL3_P", "I2S_CKIN", "PER"}
SPI45SEL_A  == {"APB", "PLL2_Q", "PLL3_Q", "HSI_KER", "CSI_KER", "HSE"}
SPI6SEL_A   == {"RCC_PCLK4", "PLL2_Q", "PLL3_Q", "HSI_KER", "CSI_KER", "HSE"}

Unimplemented == [tag |-> "unimplemented", val |-> 0]
Unreachable   == [tag |-> "unreachable", val |-> 0]

kernel_clk_spi123(rb, ck) ==
    CASE rb.spi123sel = "PLL1_Q"   -> ck.pll1_q_ck
      [] rb.spi123sel = "PLL2_P"   -> ck.pll2_p_ck
      [] rb.spi123sel = "PLL3_P"   -> ck.pll3_p_ck
      [] rb.spi123sel = "I2S_CKIN" -> Unimplemented
      [] rb.spi123sel = "PER"      -> ck.per_ck
      [] OTHER                     -> Unreachable

kernel_clk_spi45(rb, ck) ==
    CASE rb.spi45sel = "APB"     -> Some(ck.pclk2)
      [] rb.spi45sel = "PLL2_Q"  -> ck.pll2_q_ck
      [] rb.spi45sel = "PLL3_Q"  -> ck.pll3_q_ck
      [] rb.spi45sel = "HSI_KER" -> ck.hsi_ck
      [] rb.spi45sel = "CSI_KER" -> ck.csi_ck
      [] rb.spi45sel = "HSE"     -> ck.hse_ck
      [] OTHER                   -> Unreachable

kernel_clk_spi6(rb, ck) ==
    CASE rb.spi6sel = "RCC_PCLK4" -> Some(ck.pclk4)
      [] rb.spi6sel = "PLL2_Q"    -> ck.pll2_q_ck
      [] rb.spi6sel = "PLL3_Q"    -> ck.pll3_q_ck
      [] rb.spi6sel = "HSI_KER"   -> ck.hsi_ck
      [] rb.spi6sel = "CSI_KER"   -> ck.csi_ck
      [] rb.spi6sel = "HSE"       -> ck.hse_ck
      [] OTHER                    -> Unreachable

\* spi123sel! { SPI1, SPI2, SPI3 }  spi45sel! { SPI4, SPI5 }  spi6sel! { SPI6 }
kernel_clk(SPIX, rb, ck) ==
    CASE SPIX \in {"SPI1", "SPI2", "SPI3"} -> kernel_clk_spi123(rb, ck)
      [] SPIX \in {"SPI4", "SPI5"}         -> kernel_clk_spi45(rb, ck)
      [] OTHER                             -> kernel_clk_spi6(rb, ck)

(***************************************************************************)
(* Baud rate divisor: the match on spi_ker_ck / spi_freq.                  *)
(***************************************************************************)
MBR == [DIV2 |-> 2, DIV4 |-> 4, DIV8 |-> 8, DIV16 |-> 16,
        DIV32 |-> 32, DIV64 |-> 64, DIV128 |-> 128, DIV256 |-> 256]

Ladder == {MBR[m] : m \in DOMAIN MBR}

\* the ladder with the upper edge of the second arm moved from 5 to 6
mbr_of_ratio_edge(ratio) ==
    CASE ratio = 0                  -> "unreachable"
      [] ratio >= 1  /\ ratio <= 2   -> "DIV2"
      [] ratio >= 3  /\ ratio <= 6   -> "DIV4"
      [] ratio >= 7  /\ ratio <= 11  -> "DIV8"
      [] ratio >= 12 /\ ratio <= 23  -> "DIV16"
      [] ratio >= 24 /\ ratio <= 47  -> "DIV32"
      [] ratio >= 48 /\ ratio <= 95  -> "DIV64"
      [] ratio >= 96 /\ ratio <= 191 -> "DIV128"
      [] OTHER                       -> "DIV256"

mbr_of_ratio(ratio) ==
    CASE ratio = 0                  -> "unreachable"
      [] ratio >= 1  /\ ratio <= 2   -> "DIV2"
      [] ratio >= 3  /\ ratio <= 5   -> "DIV4"
      [] ratio >= 6  /\ ratio <= 11  -> "DIV8"
      [] ratio >= 12 /\ ratio <= 23  -> "DIV16"
      [] ratio >= 24 /\ ratio <= 47  -> "DIV32"
      [] ratio >= 48 /\ ratio <= 95  -> "DIV64"
      [] ratio >= 96 /\ ratio <= 191 -> "DIV128"
      [] OTHER                       -> "DIV256"

(***************************************************************************)
(* u32 arithmetic of the cycle_delay block.  A u32 is kept as two 16-bit   *)
(* limbs so that u32::MAX and the wrap of delay + 1 are representable.     *)
(***************************************************************************)
U32(n)  == [hi |-> n \div 2^16, lo |-> n % 2^16]
U32_MAX == [hi |-> 2^16 - 1, lo |-> 2^16 - 1]

(***************************************************************************)
(* f32 arithmetic of the cycle_delay block.  A finite f32 is num * 2^exp   *)
(* with |num| < 2^24 (0.0 and -0.0 are both num = 0); exp = 2^7 marks the  *)
(* values that are not finite: INFINITY, NEG_INFINITY and NAN.  Every      *)
(* operation rounds its exact result to 24 significant bits, or to a       *)
(* multiple of 2^-149 below the normal range, ties to even; a rounded      *)
(* magnitude of 2^128 or more is infinite.  An exact result is handed to   *)
(* f32_round as hi * 2^24 + lo, two 24-bit limbs.  Defined for             *)
(* spi_freq < 2^31.                                                        *)
(***************************************************************************)
INFINITY     == F32(1, 2^7)
NEG_INFINITY == F32(0 - 1, 2^7)
NAN          == F32(0, 2^7)

f32_is_finite(x) == x.exp < 2^7
f32_is_nan(x)    == x = NAN

\* the number of significant bits of h, for 0 <= h < 2^24
f32_bits(h) ==
    CHOOSE L \in 0..24 : h \div 2^L = 0 /\ (L = 0 \/ h \div 2^(L - 1) > 0)

\* the bits f32_round drops: down to 24 significant ones, or to 2^-149
f32_shift(hi, e) ==
    IF e + f32_bits(hi) < 0 - 149 THEN 0 - 149 - e ELSE f32_bits(hi)

\* (hi * 2^24 + lo) \div 2^S, for S >= f32_bits(hi)
f32_quot(hi, lo, S) ==
    IF S <= 24 THEN hi * 2^(24 - S) + lo \div 2^S
    ELSE IF S <= 48 THEN hi \div 2^(S - 24)
    ELSE 0

\* does the remainder of that division round the quotient q up?
f32_up(hi, lo, S, q) ==
    IF S = 0 THEN FALSE
    ELSE IF S <= 24
         THEN \/ 2 * (lo % 2^S) > 2^S
              \/ (2 * (lo % 2^S) = 2^S /\ q % 2 = 1)
    ELSE IF S <= 48
         THEN \/ hi % 2^(S - 24) > 2^(S - 25)
              \/ (hi % 2^(S - 24) = 2^(S - 25) /\ lo > 0)
              \/ (hi % 2^(S - 24) = 2^(S - 25) /\ lo = 0 /\ q % 2 = 1)
    ELSE FALSE

\* m * 2^x for m <= 2^24: zero, a finite f32, or infinite from 2^128 on
f32_pack(m, x) ==
    IF m = 0 THEN F32(0, 0)
    ELSE IF m = 2^24
         THEN IF 24 + x + 1 > 2^7 THEN INFINITY ELSE F32(2^23, x + 1)
    ELSE IF f32_bits(m) + x > 2^7 THEN INFINITY
    ELSE F32(m, x)

\* round (hi * 2^24 + lo) * 2^e to the nearest f32, ties to even
f32_round(hi, lo, e) ==
    LET S == f32_shift(hi, e)
        q == f32_quot(hi, lo, S)
    IN  f32_pack(IF f32_up(hi, lo, S, q) THEN q + 1 ELSE q, e + S)

\* was the value handed to f32_round representable (in the normal range)?
f32_exact(hi, lo) == lo % 2^f32_bits(hi) = 0

\* spi_freq as f32
u32_as_f32(n) == f32_round(n \div 2^24, n % 2^24, 0)

\* x * y on finite f32: the exact 48-bit product of the significands
f32_product(x, y) ==
    LET a   == IF x.num < 0 THEN 0 - x.num ELSE x.num
        b   == IF y.num < 0 THEN 0 - y.num ELSE y.num
        a1  == a \div 2^12
        a0  == a % 2^12
        b1  == b \div 2^12
        b0  == b % 2^12
        mid == a1 * b0 + a0 * b1
        s   == (mid % 2^12) * 2^12 + a0 * b0
    IN  [hi |-> a1 * b1 + mid \div 2^12 + s \div 2^24, lo |-> s % 2^24]

\* x * y on f32: NaN * y and inf * 0 are NaN, inf * y is infinite, a finite
\* product is rounded once and is infinite from 2^128 on
f32_mul(x, y) ==
    LET neg == (x.num < 0) # (y.num < 0) IN
    IF f32_is_nan(x) \/ f32_is_nan(y) THEN NAN
    ELSE IF ~f32_is_finite(x) \/ ~f32_is_finite(y)
         THEN IF x.num = 0 \/ y.num = 0 THEN NAN
              ELSE IF neg THEN NEG_INFINITY ELSE INFINITY
    ELSE LET p == f32_product(x, y)
             r == f32_round(p.hi, p.lo, x.exp + y.exp)
         IN  F32(IF neg THEN 0 - r.num ELSE r.num, r.exp)

\* y as u32: truncation toward zero, saturating at 0 and at u32::MAX;
\* NaN gives 0
f32_as_u32(y) ==
    IF y.num <= 0 THEN U32(0)
    ELSE IF y.exp >= 32 THEN U32_MAX
    ELSE IF y.exp > 7 /\ y.num \div 2^(32 - y.exp) > 0 THEN U32_MAX
    ELSE IF y.exp >= 16 THEN [hi |-> y.num * 2^(y.exp - 16), lo |-> 0]
    ELSE IF y.exp >= 0
         THEN [hi |-> y.num \div 2^(16 - y.exp),
               lo |-> (y.num % 2^(16 - y.exp)) * 2^y.exp]
    ELSE IF 0 - y.exp > 24 THEN U32(0)
    ELSE U32(y.num \div 2^(0 - y.exp))

\* (config.cs_delay * spi_freq as f32) as u32
f32_mul_as_u32(x, spi_freq) == f32_as_u32(f32_mul(x, u32_as_f32(spi_freq)))

\* cs_delay > 0.0_f32: false for NaN
f32_gt_zero(x) == x.num > 0

\* delay + 1 on u32: [ok, val]; at u32::MAX it panics with overflow checks
\* and wraps to 0 without them.
u32_add_one(d, checks) ==
    IF d = U32_MAX
    THEN [ok |-> ~checks, val |-> U32(0)]
    ELSE IF d.lo = 2^16 - 1
         THEN [ok |-> TRUE, val |-> [hi |-> d.hi + 1, lo |-> 0]]
         ELSE [ok |-> TRUE, val |-> [hi |-> d.hi, lo |-> d.lo + 1]]

u32_gt_0xF(d) == d.hi > 0 \/ d.lo > 15

\* The cycle_delay block: [ok |-> FALSE] when delay + 1 panics, else the u8.
cycle_delay(cfg, spi_freq, checks) ==
    LET d0 == f32_mul_as_u32(cfg.cs_delay, spi_freq)
        d1 == IF f32_gt_zero(cfg.cs_delay)
              THEN u32_add_one(d0, checks)
              ELSE [ok |-> TRUE, val |-> d0]
        d2 == IF u32_gt_0xF(d1.val) THEN U32(15) ELSE d1.val
    IN  [ok |-> d1.ok, val |-> d2.lo % 2^8]

\* config.frame_size - 1 on u8, then DSIZE.bits() (a 5-bit field).
dsize_of(frame_size, checks) ==
    IF frame_size = 0
    THEN [ok |-> ~checks, val |-> (2^8 - 1) % 2^5]
    ELSE [ok |-> TRUE, val |-> (frame_size - 1) % 2^5]

(***************************************************************************)
(* Register reset values (RM0433) and the values the writes leave.         *)
(***************************************************************************)
Cfg1Reset == [mbr |-> "DIV2", dsize |-> 7]
Cfg2Reset == [cpha |-> FALSE, cpol |-> FALSE, master |-> FALSE, lsbfrst |-> FALSE,
              ssoe |-> FALSE, ssm |-> FALSE, mssi |-> 0, ioswp |-> FALSE, comm |-> 0]
Cr1Reset  == [ssi |-> FALSE, spe |-> FALSE, cstart |-> FALSE]
Cr2Reset  == [tsize |-> 0]
IerReset  == [rxpie |-> FALSE, txpie |-> FALSE, udrie |-> FALSE, ovrie |-> FALSE,
              crceie |-> FALSE, modfie |-> FALSE, eotie |-> FALSE]
SrReset   == [ovr |-> FALSE, modf |-> FALSE, crce |-> FALSE, rxp |-> FALSE, txp |-> TRUE]

\* spi.cfg2.write(|w| w.cpha()...comm().bits(..)): every other field is reset.
cfg2_of(cfg, delay) ==
    [ cpha    |-> (cfg.mode.phase = "CaptureOnSecondTransition"),
      cpol    |-> (cfg.mode.polarity = "IdleHigh"),
      master  |-> TRUE,
      lsbfrst |-> FALSE,
      ssoe    |-> (cfg.managed_cs = TRUE),
      ssm     |-> (cfg.managed_cs = FALSE),
      mssi    |-> delay,
      ioswp   |-> (cfg.swap_miso_mosi = TRUE),
      comm    |-> CommunicationMode[cfg.communication_mode] ]

(***************************************************************************)
(* The clock tree handed in by the caller: every source runs at hz, except *)
(* the sources in dis, which are disabled.  pclk2 and pclk4 always run.    *)
(***************************************************************************)
OptionalClocks ==
    {"pll1_q_ck", "pll2_p_ck", "pll3_p_ck", "per_ck",
     "pll2_q_ck", "pll3_q_ck", "hsi_ck", "csi_ck", "hse_ck"}

ClockTree(hz, dis) ==
    [n \in OptionalClocks |-> IF n \in dis THEN None ELSE Some(hz)]
        @@ [n \in {"pclk2", "pclk4"} |-> hz]

CcipReset == [spi123sel |-> "PLL1_Q", spi45sel |-> "APB", spi6sel |-> "RCC_PCLK4"]

SelField(SPIX) ==
    CASE SPIX \in {"SPI1", "SPI2", "SPI3"} -> "spi123sel"
      [] SPIX \in {"SPI4", "SPI5"}         -> "spi45sel"
      [] OTHER                             -> "spi6sel"

SelValues(SPIX) ==
    CASE SPIX \in {"SPI1", "SPI2", "SPI3"} -> SPI123SEL_A
      [] SPIX \in {"SPI4", "SPI5"}         -> SPI45SEL_A
      [] OTHER                             -> SPI6SEL_A

(***************************************************************************)
(* Inputs of the constructor.                                              *)
(***************************************************************************)
MHz == 10^6

KerFreqs == (1..MaxKer) \cup {191, 192, 383, 384, 100 * MHz, 200 * MHz}

ReqFreqs == (0..MaxReq) \cup {MHz, 100 * MHz}
\* rates that spi_freq as f32 rounds: up to 2^25, a tie down, a tie up
RndFreqs == {2^25 - 1, 2^24 + 1, 2^24 + 3}
DelayExps == {0 - 25, 0 - 24, 0 - 3, 0, 32}
\* delays whose product is infinite (2^127 s), and the delays not finite
BigDelays == {F32(1, 127), INFINITY, NAN}
CsDelays ==
    {F32(n, e) : n \in (0 - 1)..MaxDelayNum, e \in DelayExps} \cup BigDelays

Input(s, sel, dis, hz, f, c, oc) ==
    [spi |-> s, freq |-> f, config |-> c, clocks |-> ClockTree(hz, dis),
     ccip |-> [CcipReset EXCEPT ![SelField(s)] = sel], overflow_checks |-> oc,
     path |-> "spi", pins |-> Fillers]

\* every kernel clock against every requested rate, default Config
DivInputs ==
    {Input(s, CcipReset[SelField(s)], {}, hz, f, Config_new(MODE_0), oc) :
        s \in SpiInstances, hz \in KerFreqs, f \in ReqFreqs, oc \in {FALSE}}

\* every selector of every instance against every single disabled source
KerInputs ==
    UNION {{Input(s, sel, dis, 8, f, Config_new(MODE_0), FALSE) :
                sel \in SelValues(s),
                dis \in {{}} \cup {{n} : n \in OptionalClocks},
                f \in {1, 8}} :
           s \in SpiInstances}

\* every cs_delay against every requested rate
DlyInputs ==
    {Input("SPI1", "PLL1_Q", {}, hz, f, Config_cs_delay(Config_new(MODE_0), d), oc) :
        hz \in {4, 200 * MHz}, f \in (ReqFreqs \ {0}) \cup RndFreqs,
        d \in CsDelays, oc \in BOOLEAN}

\* every Config the builder makes over small field values
CfgInputs ==
    {Input("SPI4", "APB", {}, 8, 2,
           [ mode |-> m, swap_miso_mosi |-> sw, cs_delay |-> F32(1, 0),
             frame_size |-> fs, managed_cs |-> mc, communication_mode |-> cm,
             t_size |-> ts ], oc) :
        m \in Modes, sw \in BOOLEAN, fs \in {0, 4, 8, 32}, mc \in BOOLEAN,
        cm \in DOMAIN CommunicationMode, ts \in {0, 1}, oc \in BOOLEAN}

\* the pin types of every instance and role, offered to every instance
PinTypes(table) == UNION {table[s] : s \in SpiInstances}
PinTuples ==
    {[sck |-> a, miso |-> b, mosi |-> c] :
        a \in PinTypes(PinSck), b \in PinTypes(PinMiso), c \in PinTypes(PinMosi)}

\* every constructor of every instance with every argument list that compiles
PinInputs ==
    UNION {{[Input(s, CcipReset[SelField(s)], {}, 8, 1, Config_new(MODE_0), FALSE)
                EXCEPT !.path = ctor, !.pins = t] :
                t \in {x \in PinTuples \cup {NoPins} : compiles(ctor, s, x)}} :
           s \in SpiInstances, ctor \in Constructors}

ClkInputs == DivInputs \cup KerInputs \cup DlyInputs \cup CfgInputs \cup PinInputs

XferInputs ==
    {Input("SPI1", "PLL1_Q", {}, 8, 1, c, FALSE) :
        c \in {Config_manage_cs(Config_new(MODE_3))}}

InitWith(S) ==
    /\ \E i \in S :
        /\ spi = i.spi
        /\ freq = i.freq
        /\ config = i.config
        /\ clocks = i.clocks
        /\ ccip = i.ccip
        /\ overflow_checks = i.overflow_checks
        /\ path = i.path
        /\ pins = i.pins
    /\ pc = "enable_clock"
    /\ panic = "none"
    /\ rcc_en = {}
    /\ spi_ker_ck = 0
    /\ mbr = "none"
    /\ cfg1 = Cfg1Reset
    /\ cfg2 = Cfg2Reset
    /\ cr1 = Cr1Reset
    /\ cr2 = Cr2Reset
    /\ ier = IerReset
    /\ sr = SrReset
    /\ txdr = 0
    /\ rxdr = 0
    /\ last = [op |-> "none", res |-> "none", val |-> 0]
    /\ nstart = 0
    /\ nsent = 0

Init    == InitWith(XferInputs)
InitClk == InitWith(ClkInputs)

(***************************************************************************)
(* The constructor Spi::$spiX, one action per statement.                   *)
(***************************************************************************)
Panic(msg) ==
    /\ pc' = "panicked"
    /\ panic' = msg

\* ccdr.rb.$apbXenr.modify(|_, w| w.$spiXen().enabled());
spiX_enable_clock ==
    /\ pc = "enable_clock"
    /\ rcc_en' = rcc_en \cup {<<SpiTable[spi].apbXenr, SpiTable[spi].spiXen>>}
    /\ pc' = "disable_ssoe"
    /\ UNCHANGED <<panic, inputs, locals, cregs, xfer>>

\* spi.cfg2.write(|w| w.ssoe().disabled());
spiX_disable_ssoe ==
    /\ pc = "disable_ssoe"
    /\ cfg2' = [Cfg2Reset EXCEPT !.ssoe = FALSE]
    /\ pc' = "kernel_clk"
    /\ UNCHANGED <<panic, inputs, rcc_en, locals, cfg1, cr1, cr2, xfer>>

\* let spi_ker_ck = match Self::kernel_clk(ccdr) { Some(ker_hz) => .., _ => panic!(..) };
spiX_kernel_clk ==
    /\ pc = "kernel_clk"
    /\ LET k == kernel_clk(spi, ccip, clocks) IN
        IF k.tag = "Some"
        THEN /\ spi_ker_ck' = k.val
             /\ pc' = "mbr"
             /\ UNCHANGED panic
        ELSE /\ Panic(IF k.tag = "None" THEN "kernel clock not running" ELSE k.tag)
             /\ UNCHANGED spi_ker_ck
    /\ UNCHANGED <<inputs, rcc_en, mbr, cregs, xfer>>

\* let mbr = match spi_ker_ck / spi_freq { 0 => unreachable!(), .. };
spiX_mbr ==
    /\ pc = "mbr"
    /\ IF freq = 0
       THEN /\ Panic("divide by zero")
            /\ UNCHANGED mbr
       ELSE LET m == mbr_of_ratio(spi_ker_ck \div freq) IN
            IF m = "unreachable"
            THEN /\ Panic("unreachable")
                 /\ UNCHANGED mbr
            ELSE /\ mbr' = m
                 /\ pc' = "cfg1"
                 /\ UNCHANGED panic
    /\ UNCHANGED <<inputs, rcc_en, spi_ker_ck, cregs, xfer>>

\* spi.cfg1.modify(|_, w| w.mbr().variant(mbr).dsize().bits(config.frame_size - 1));
spiX_cfg1 ==
    /\ pc = "cfg1"
    /\ LET ds == dsize_of(config.frame_size, overflow_checks) IN
        IF ds.ok
        THEN /\ cfg1' = [cfg1 EXCEPT !.mbr = mbr, !.dsize = ds.val]
             /\ pc' = "cr2"
             /\ UNCHANGED panic
        ELSE /\ Panic("overflow")
             /\ UNCHANGED cfg1
    /\ UNCHANGED <<inputs, rcc_en, locals, cfg2, cr1, cr2, xfer>>

\* spi.cr2.write(|w| w.tsize().bits(config.t_size));
spiX_cr2 ==
    /\ pc = "cr2"
    /\ cr2' = [Cr2Reset EXCEPT !.tsize = config.t_size]
    /\ pc' = "cr1_ssi"
    /\ UNCHANGED <<panic, inputs, rcc_en, locals, cfg1, cfg2, cr1, xfer>>

\* spi.cr1.write(|w| w.ssi().slave_not_selected());
spiX_cr1_ssi ==
    /\ pc = "cr1_ssi"
    /\ cr1' = [Cr1Reset EXCEPT !.ssi = TRUE]
    /\ pc' = "cfg2"
    /\ UNCHANGED <<panic, inputs, rcc_en, locals, cfg1, cfg2, cr2, xfer>>

\* let cycle_delay: u8 = { .. }; spi.cfg2.write(|w| { .. });
spiX_cfg2 ==
    /\ pc = "cfg2"
    /\ LET cd == cycle_delay(config, freq, overflow_checks) IN
        IF cd.ok
        THEN /\ cfg2' = cfg2_of(config, cd.val % 2^4)
             /\ pc' = "spe"
             /\ UNCHANGED panic
        ELSE /\ Panic("overflow")
             /\ UNCHANGED cfg2
    /\ UNCHANGED <<inputs, rcc_en, locals, cfg1, cr1, cr2, xfer>>

\* spi.cr1.write(|w| w.ssi().slave_not_selected().spe().enabled()); Spi { spi }
spiX_spe ==
    /\ pc = "spe"
    /\ cr1' = [Cr1Reset EXCEPT !.ssi = TRUE, !.spe = TRUE]
    /\ pc' = "enabled"
    /\ UNCHANGED <<panic, inputs, rcc_en, locals, cfg1, cfg2, cr2, xfer>>

NextClk ==
    \/ spiX_enable_clock
    \/ spiX_disable_ssoe
    \/ spiX_kernel_clk
    \/ spiX_mbr
    \/ spiX_cfg1
    \/ spiX_cr2
    \/ spiX_cr1_ssi
    \/ spiX_cfg2
    \/ spiX_spe

SpecClk == InitClk /\ [][NextClk]_vars

(***************************************************************************)
(* Properties of the constructor, checked under SpecClk.                   *)
(***************************************************************************)
\* the constructor has executed the match that selects the divisor
DivisorSelected == mbr # "none"
\* the constructor has executed the modify of CFG1
Cfg1Programmed == pc \in {"cr2", "cr1_ssi", "cfg2", "spe", "enabled"}
\* the constructor has executed the second write of CFG2
Cfg2Programmed == pc \in {"spe", "enabled"}
\* the constructor is past the kernel clock match
PastKernelClk == pc \notin {"enable_clock", "disable_ssoe", "kernel_clk"}
ValidRequest == 0 < freq /\ freq <= spi_ker_ck
\* F / d <= R over the rationals, i.e. F <= d * R
RateAtMost(F, d, R) == (F + d - 1) \div d <= R

\* the largest divisor of the ladder reaches the request (F <= 256 * R)
Satisfiable == RateAtMost(spi_ker_ck, MBR.DIV256, freq)

\* C1: for 0 < R <= F the selected divisor d gives a bit rate F / d that
\* does not exceed the requested rate R.  Stated on the requests that some
\* divisor of the ladder can meet.
C1_RateNeverExceedsRequest ==
    (DivisorSelected /\ ValidRequest /\ Satisfiable) =>
        RateAtMost(spi_ker_ck, MBR[mbr], freq)

\* C2: for 0 < R <= F the selected divisor is the smallest value of the
\* ladder whose rate F / d does not exceed R.  Stated on the requests that
\* some divisor of the ladder can meet.
C2_SmallestLegalDivisor ==
    (DivisorSelected /\ ValidRequest /\ Satisfiable) =>
        /\ MBR[mbr] \in {d \in Ladder : RateAtMost(spi_ker_ck, d, freq)}
        /\ \A d \in Ladder : RateAtMost(spi_ker_ck, d, freq) => MBR[mbr] <= d

C3_LadderValue(ratio) ==
    IF ratio <= 2 THEN 2
    ELSE IF ratio <= 5 THEN 4
    ELSE IF ratio <= 11 THEN 8
    ELSE IF ratio <= 23 THEN 16
    ELSE IF ratio <= 47 THEN 32
    ELSE IF ratio <= 95 THEN 64
    ELSE IF ratio <= 191 THEN 128
    ELSE 256

\* C3: the divisor programmed into CFG1.MBR follows the ladder on
\* ratio = F / R (integer division) with inclusive upper edges 2, 5, 11, 23,
\* 47, 95, 191; 100 MHz / 1 MHz gives 128 and 200 MHz / 100 MHz gives 2.
C3_LadderProgrammed ==
    Cfg1Programmed =>
        /\ spi_ker_ck \div freq >= 1
        /\ MBR[cfg1.mbr] = C3_LadderValue(spi_ker_ck \div freq)
        /\ (spi_ker_ck \div freq = 2) => cfg1.mbr = "DIV2"
        /\ (spi_ker_ck \div freq = 191) => cfg1.mbr = "DIV128"
        /\ (spi_ker_ck \div freq = 192) => cfg1.mbr = "DIV256"
        /\ (spi_ker_ck = 100 * MHz /\ freq = MHz) => cfg1.mbr = "DIV128"
        /\ (spi_ker_ck = 200 * MHz /\ freq = 100 * MHz) => cfg1.mbr = "DIV2"

C3_Witness ==
    /\ pc = "enabled"
    /\ spi_ker_ck = 383 /\ freq = 2
    /\ cfg1.mbr = "DIV128"

\* C4: a request of 0 Hz or above the kernel clock makes initialization
\* fail with an error result: no divisor is selected, the bus is never
\* enabled, and the constructor does not die in unreachable!() or in a
\* division by zero.
C4_InvalidRequestFailsExplicitly ==
    (PastKernelClk /\ spi_ker_ck > 0 /\ pc # "mbr" /\ ~ValidRequest) =>
        /\ mbr = "none"
        /\ ~cr1.spe
        /\ panic \notin {"unreachable", "divide by zero"}

\* the clock of ccdr.clocks that a selector value names
C5_SourceClock ==
    [ PLL1_Q |-> "pll1_q_ck", PLL2_P |-> "pll2_p_ck", PLL3_P |-> "pll3_p_ck",
      PER |-> "per_ck", I2S_CKIN |-> "i2s_ckin", APB |-> "pclk2",
      RCC_PCLK4 |-> "pclk4", PLL2_Q |-> "pll2_q_ck", PLL3_Q |-> "pll3_q_ck",
      HSI_KER |-> "hsi_ck", CSI_KER |-> "csi_ck", HSE |-> "hse_ck" ]

\* C5: for every group and every selectable source, resolution yields the
\* frequency of the selected source, or none when it is disabled; when it
\* yields none the constructor stops with the kernel clock error, CFG1 is
\* never written and the bus is never enabled.
C5_ResolutionTotalAndFatal ==
    PastKernelClk =>
        LET src == C5_SourceClock[ccip[SelField(spi)]] IN
        /\ src \in DOMAIN clocks
        /\ \/ /\ src \in {"pclk2", "pclk4"}
              /\ spi_ker_ck = clocks[src]
           \/ /\ src \in OptionalClocks
              /\ clocks[src] # None
              /\ spi_ker_ck = clocks[src].val
           \/ /\ src \in OptionalClocks
              /\ clocks[src] = None
              /\ pc = "panicked" /\ panic = "kernel clock not running"
              /\ mbr = "none" /\ cfg1 = Cfg1Reset /\ ~cr1.spe

\* floor(d * R) capped at 16 (every value above 15 is clamped alike)
C6_FloorCapped(d, R) ==
    IF d.num * R <= 0 THEN 0
    ELSE IF d.exp >= 4 THEN 16
    ELSE IF (d.num * R) \div 2^(0 - d.exp) > 16 THEN 16
    ELSE (d.num * R) \div 2^(0 - d.exp)

C6_Clamp(n) == IF n > 15 THEN 15 ELSE IF n < 0 THEN 0 ELSE n

\* C6: the chip-select delay programmed into CFG2.MSSI is floor(d * f), plus
\* one when d > 0, clamped to 0..15, f being the frequency the constructor
\* resolved from its freq argument.
C6_DelayProgrammed ==
    Cfg2Programmed =>
        /\ cfg2.mssi \in 0..15
        /\ cfg2.mssi =
             C6_Clamp(C6_FloorCapped(config.cs_delay, freq)
                        + (IF config.cs_delay.num > 0 THEN 1 ELSE 0))

(***************************************************************************)
(* Operations of a constructed driver.  Every call leaves in `last` what   *)
(* it was, what it returned and the status word it read from SR.           *)
(***************************************************************************)
Events     == {"Rxp", "Txp", "Error", "Eot"}
ErrorFlags == {"ovr", "modf", "crce"}
SendWords  == {165, 90}
RecvWords  == {60}

NoSr == [ovr |-> FALSE, modf |-> FALSE, crce |-> FALSE, rxp |-> FALSE, txp |-> FALSE]

Call(op, res, val, st) == [op |-> op, res |-> res, val |-> val, sr |-> st]

\* the chain with the CRC test moved in front of the overrun test
error_chain_crc_first(st, ready) ==
    IF st.crce THEN "Crc"
    ELSE IF st.ovr THEN "Overrun"
    ELSE IF st.modf THEN "ModeFault"
    ELSE IF ready THEN "Ok"
    ELSE "WouldBlock"

\* the if / else-if chain shared by read and send: the nb::Error it makes,
\* or "ready" when the chain reaches the data branch
error_chain(st, ready) ==
    IF st.ovr THEN "Overrun"
    ELSE IF st.modf THEN "ModeFault"
    ELSE IF st.crce THEN "Crc"
    ELSE IF ready THEN "Ok"
    ELSE "WouldBlock"

\* a read that acknowledges the overrun it reports
read_clears_overrun ==
    /\ pc = "enabled"
    /\ LET st == sr
           r  == error_chain(st, st.rxp)
       IN  /\ last' = Call("read", r, IF r = "Ok" THEN rxdr ELSE 0, st)
           /\ sr' = IF r = "Overrun" THEN [sr EXCEPT !.ovr = FALSE] ELSE sr
    /\ UNCHANGED <<pc, panic, inputs, rcc_en, locals, cregs,
                   ier, txdr, rxdr, nstart, nsent>>

\* FullDuplex::read
read ==
    /\ pc = "enabled"
    /\ LET st == sr
           r  == error_chain(st, st.rxp)
       IN  last' = Call("read", r, IF r = "Ok" THEN rxdr ELSE 0, st)
    /\ UNCHANGED <<pc, panic, inputs, rcc_en, locals, cregs,
                   ier, sr, txdr, rxdr, nstart, nsent>>

\* a send that writes CSTART before it looks at TXP
send_strobe_on_block(byte) ==
    /\ pc = "enabled"
    /\ nsent < MaxSent
    /\ nstart < MaxSent
    /\ LET st == sr
           r  == error_chain(st, st.txp)
       IN  /\ last' = Call("send", r, byte, st)
           /\ IF r = "Ok"
              THEN /\ txdr' = byte
                   /\ cr1' = [cr1 EXCEPT !.cstart = TRUE]
                   /\ nstart' = nstart + 1
                   /\ nsent' = nsent + 1
              ELSE IF r = "WouldBlock"
              THEN /\ cr1' = [cr1 EXCEPT !.cstart = TRUE]
                   /\ nstart' = nstart + 1
                   /\ UNCHANGED <<txdr, nsent>>
              ELSE UNCHANGED <<txdr, cr1, nstart, nsent>>
    /\ UNCHANGED <<pc, panic, inputs, rcc_en, locals, cfg1, cfg2, cr2,
                   ier, sr, rxdr>>

\* a send that starts the transaction with cr1.write instead of cr1.modify
send_cr1_write(byte) ==
    /\ pc = "enabled"
    /\ nsent < MaxSent
    /\ LET st == sr
           r  == error_chain(st, st.txp)
       IN  /\ last' = Call("send", r, byte, st)
           /\ IF r = "Ok"
              THEN /\ txdr' = byte
                   /\ cr1' = [Cr1Reset EXCEPT !.cstart = TRUE]
                   /\ nstart' = nstart + 1
                   /\ nsent' = nsent + 1
              ELSE UNCHANGED <<txdr, cr1, nstart, nsent>>
    /\ UNCHANGED <<pc, panic, inputs, rcc_en, locals, cfg1, cfg2, cr2,
                   ier, sr, rxdr>>

\* FullDuplex::send
send(byte) ==
    /\ pc = "enabled"
    /\ nsent < MaxSent
    /\ LET st == sr
           r  == error_chain(st, st.txp)
       IN  /\ last' = Call("send", r, byte, st)
           /\ IF r = "Ok"
              THEN /\ txdr' = byte
                   /\ cr1' = [cr1 EXCEPT !.cstart = TRUE]
                   /\ nstart' = nstart + 1
                   /\ nsent' = nsent + 1
              ELSE UNCHANGED <<txdr, cr1, nstart, nsent>>
    /\ UNCHANGED <<pc, panic, inputs, rcc_en, locals, cfg1, cfg2, cr2,
                   ier, sr, rxdr>>

\* listen with the mode fault enable left out of the Error arm
listen_bits_partial(e) ==
    CASE e = "Rxp"   -> {"rxpie"}
      [] e = "Txp"   -> {"txpie"}
      [] e = "Error" -> {"udrie", "ovrie", "crceie"}
      [] e = "Eot"   -> {"eotie"}

\* Spi::listen: ier.modify sets the enable bits of the event
listen_bits(e) ==
    CASE e = "Rxp"   -> {"rxpie"}
      [] e = "Txp"   -> {"txpie"}
      [] e = "Error" -> {"udrie", "ovrie", "crceie", "modfie"}
      [] e = "Eot"   -> {"eotie"}

\* Spi::unlisten: ier.modify clears the enable bits of the event
unlisten_bits(e) ==
    CASE e = "Rxp"   -> {"rxpie"}
      [] e = "Txp"   -> {"txpie"}
      [] e = "Error" -> {"udrie", "ovrie", "crceie", "modfie"}
      [] e = "Eot"   -> {"eotie"}

listen(event) ==
    /\ pc = "enabled"
    /\ ier' = [b \in DOMAIN ier |-> IF b \in listen_bits(event) THEN TRUE ELSE ier[b]]
    /\ last' = Call("listen", event, 0, NoSr)
    /\ UNCHANGED <<pc, panic, inputs, rcc_en, locals, cregs,
                   sr, txdr, rxdr, nstart, nsent>>

unlisten(event) ==
    /\ pc = "enabled"
    /\ ier' = [b \in DOMAIN ier |-> IF b \in unlisten_bits(event) THEN FALSE ELSE ier[b]]
    /\ last' = Call("unlisten", event, 0, NoSr)
    /\ UNCHANGED <<pc, panic, inputs, rcc_en, locals, cregs,
                   sr, txdr, rxdr, nstart, nsent>>

\* is_txp, is_rxp, is_modf, is_ovr: one read of SR, one flag returned
StatusQueries == [is_txp |-> "txp", is_rxp |-> "rxp", is_modf |-> "modf", is_ovr |-> "ovr"]

status_query(q) ==
    /\ pc = "enabled"
    /\ last' = Call(q, IF sr[StatusQueries[q]] THEN "true" ELSE "false", 0, NoSr)
    /\ UNCHANGED <<pc, panic, inputs, rcc_en, locals, cregs,
                   ier, sr, txdr, rxdr, nstart, nsent>>

\* Spi::free: the register block goes back to the caller
free ==
    /\ pc = "enabled"
    /\ pc' = "released"
    /\ last' = Call("free", "none", 0, NoSr)
    /\ UNCHANGED <<panic, inputs, rcc_en, locals, cregs,
                   ier, sr, txdr, rxdr, nstart, nsent>>

(***************************************************************************)
(* The environment of an enabled peripheral: the hardware raises status    *)
(* flags and fills RXDR; error flags fall only when the caller clears them *)
(* through IFCR, which this driver never writes.                           *)
(***************************************************************************)
HwSet(f) ==
    /\ pc = "enabled"
    /\ ~sr[f]
    /\ sr' = [sr EXCEPT ![f] = TRUE]
    /\ UNCHANGED <<pc, panic, inputs, rcc_en, locals, cregs,
                   ier, txdr, rxdr, last, nstart, nsent>>

HwReceive(w) ==
    /\ pc = "enabled"
    /\ ~sr.rxp
    /\ sr' = [sr EXCEPT !.rxp = TRUE]
    /\ rxdr' = w
    /\ UNCHANGED <<pc, panic, inputs, rcc_en, locals, cregs,
                   ier, txdr, last, nstart, nsent>>

HwNotReady(f) ==
    /\ pc = "enabled"
    /\ sr[f]
    /\ sr' = [sr EXCEPT ![f] = FALSE]
    /\ UNCHANGED <<pc, panic, inputs, rcc_en, locals, cregs,
                   ier, txdr, rxdr, last, nstart, nsent>>

ExternalClear(f) ==
    /\ pc = "enabled"
    /\ sr[f]
    /\ sr' = [sr EXCEPT ![f] = FALSE]
    /\ UNCHANGED <<pc, panic, inputs, rcc_en, locals, cregs,
                   ier, txdr, rxdr, last, nstart, nsent>>

DriverCall ==
    \/ read
    \/ \E byte \in SendWords : send(byte)
    \/ \E e \in Events : listen(e)
    \/ \E e \in Events : unlisten(e)
    \/ \E q \in DOMAIN StatusQueries : status_query(q)
    \/ free

Environment ==
    \/ \E f \in ErrorFlags \cup {"txp"} : HwSet(f)
    \/ \E w \in RecvWords : HwReceive(w)
    \/ \E f \in {"rxp", "txp"} : HwNotReady(f)
    \/ \E f \in ErrorFlags : ExternalClear(f)

Next ==
    \/ NextClk
    \/ DriverCall
    \/ Environment

Spec == Init /\ [][Next]_vars

(***************************************************************************)
(* Properties of the transfer engine and of the event controller, checked  *)
(* under Spec.                                                             *)
(***************************************************************************)
TransferCall == last.op \in {"read", "send"}
ErrorResults == {"Overrun", "ModeFault", "Crc"}
C7_Ready == IF last.op = "read" THEN last.sr.rxp ELSE last.sr.txp

\* C7: read and send test the error flags before data availability, in the
\* order overrun, mode fault, CRC; a word moves or WouldBlock is returned
\* only when no error flag was read, and a call that reports an error
\* returns no word and leaves TXDR alone.
C7_ErrorPriority ==
    TransferCall =>
        /\ last.sr.ovr => last.res = "Overrun"
        /\ (~last.sr.ovr /\ last.sr.modf) => last.res = "ModeFault"
        /\ (~last.sr.ovr /\ ~last.sr.modf /\ last.sr.crce) => last.res = "Crc"
        /\ (~last.sr.ovr /\ ~last.sr.modf /\ ~last.sr.crce) =>
               last.res = (IF C7_Ready THEN "Ok" ELSE "WouldBlock")
        /\ (last.op = "read" /\ last.res # "Ok") => last.val = 0
        /\ (last.op = "send" /\ last.res # "Ok" /\ nsent = 0) => txdr = 0

C7_Witness ==
    /\ last.op = "read"
    /\ last.sr.ovr /\ last.sr.crce /\ last.sr.rxp
    /\ last.res = "Overrun"

\* C8: the number of CSTART strobes equals the number of send calls that
\* returned Ok; an accepted word is in TXDR with CSTART written, and before
\* any accepted word TXDR and CSTART are untouched.
C8_OneStartPerAcceptedWord ==
    /\ nstart = nsent
    /\ (last.op = "send" /\ last.res = "Ok") => (txdr = last.val /\ cr1.cstart)
    /\ (nsent = 0) => (txdr = 0 /\ ~cr1.cstart)

C8_Witness ==
    /\ nsent = 1 /\ nstart = 1
    /\ last.op = "send" /\ last.res = "WouldBlock"
    /\ txdr \in SendWords /\ last.val # txdr

C9_ErrorSeen == \E f \in ErrorFlags : last.sr[f]

\* C9: an error flag of SR falls only by the caller's clear, never by a step
\* of the driver; and a read or send whose one status read saw an error
\* flag returns an error, never a word, Ok or WouldBlock.
C9_ErrorsStickyForDriver ==
    /\ [][(\E f \in ErrorFlags : sr[f] /\ ~sr'[f]) =>
              (\E f \in ErrorFlags : ExternalClear(f))]_vars
    /\ []((TransferCall /\ C9_ErrorSeen) => last.res \in ErrorResults)

C9_Witness ==
    /\ last.op = "send" /\ last.res = "ModeFault"
    /\ sr.modf /\ sr.txp
    /\ nsent = 1

C10_Group == {"udrie", "ovrie", "crceie", "modfie"}
C10_CallStep(op) == last'.op = op /\ (last' # last \/ ier' # ier)

\* C10: the four enable bits of the Error event are always equal;
\* listen(Error) sets the four, unlisten(Error) clears the four, and listen
\* or unlisten of another event changes none of them.
C10_ErrorGroupAtomic ==
    /\ [](\A a, b \in C10_Group : ier[a] = ier[b])
    /\ [][/\ (C10_CallStep("listen") /\ last'.res = "Error") =>
                (\A b \in C10_Group : ier'[b])
          /\ (C10_CallStep("unlisten") /\ last'.res = "Error") =>
                (\A b \in C10_Group : ~ier'[b])
          /\ ((C10_CallStep("listen") \/ C10_CallStep("unlisten"))
                /\ last'.res # "Error") =>
                (\A b \in C10_Group : ier'[b] = ier[b])]_vars

C10_Witness ==
    /\ \A b \in C10_Group : ier[b]
    /\ ier.rxpie /\ ~ier.txpie
    /\ last.op = "unlisten" /\ last.res = "Txp"

(***************************************************************************)
(* Properties of the construction paths, checked under SpecClk.            *)
(***************************************************************************)
\* the constructor has written a register (the RCC enable bit is the first)
RegisterWritten == pc # "enable_clock"
InCapabilitySet ==
    /\ pins.sck \in PinSck[spi]
    /\ pins.miso \in PinMiso[spi]
    /\ pins.mosi \in PinMosi[spi]

\* C11 as claimed: on every construction path a register is written only
\* after a (SCK, MISO, MOSI) tuple of the instance's capability set was
\* proved.
C11_EveryPathValidatesPins ==
    RegisterWritten => (pins # NoPins /\ InCapabilitySet)

\* C11: on the path SpiExt::spi a register is written only for a tuple of
\* the instance's capability set (fillers included); spi_unchecked and
\* Spi::$spiX write the registers with no pin tuple at all.
C11_SpiPathValidatesPins ==
    /\ (RegisterWritten /\ path = "spi") => InCapabilitySet
    /\ (path # "spi") => pins = NoPins

C11_Witness ==
    /\ pc = "enabled"
    /\ path = "spi" /\ spi = "SPI3"
    /\ pins = [sck |-> "PB3_AF6", miso |-> "NoMiso", mosi |-> "PB2_AF7"]

\* the delay products below 2^32 that f32 holds without rounding
C12_DelayExact ==
    LET f == u32_as_f32(freq)
        p == f32_product(config.cs_delay, f)
    IN  /\ config.cs_delay.exp < 32
        /\ f32_exact(freq \div 2^24, freq % 2^24)
        /\ f32_exact(p.hi, p.lo)

(***************************************************************************)
(* Properties of the order of the constructor's writes, under SpecClk.     *)
(***************************************************************************)
\* every configuration field holds the value the Config gives
C12_FieldsAsConfigured ==
    /\ cfg1.mbr = mbr /\ mbr # "none"
    /\ cfg1.dsize = config.frame_size - 1
    /\ cr2.tsize = config.t_size
    /\ cfg2.cpha = (config.mode.phase = "CaptureOnSecondTransition")
    /\ cfg2.cpol = (config.mode.polarity = "IdleHigh")
    /\ cfg2.master
    /\ ~cfg2.lsbfrst
    /\ cfg2.ssoe = config.managed_cs
    /\ cfg2.ssm = ~config.managed_cs
    /\ cfg2.mssi \in 0..15
    /\ C12_DelayExact =>
          cfg2.mssi =
            C6_Clamp(C6_FloorCapped(config.cs_delay, freq)
                       + (IF config.cs_delay.num > 0 THEN 1 ELSE 0))
    /\ cfg2.ioswp = config.swap_miso_mosi
    /\ cfg2.comm = CommunicationMode[config.communication_mode]

\* C12: SPE is set only by the last step of initialization, after every
\* configuration field was written with the value of the Config (data size
\* = frame_size - 1 among them); it is clear at every earlier step; and in
\* the enabled state exactly one of SSOE and SSM is set, SSOE iff managed_cs.
C12_EnableAfterConfiguration ==
    /\ (pc \notin {"enabled", "released"}) => ~cr1.spe
    /\ cr1.spe => C12_FieldsAsConfigured
    /\ (pc = "enabled") =>
          /\ cr1.spe /\ cr1.ssi
          /\ cfg2.ssoe # cfg2.ssm
          /\ cfg2.ssoe = config.managed_cs

(***************************************************************************)
(* Frame of the operations of an enabled driver, checked under Spec.       *)
(***************************************************************************)
\* C13: from the enabled state, every step of send, read, listen, unlisten,
\* the status queries and free leaves SPE and SSI set and leaves CFG1
\* (divisor, data size), CR2 (transfer size) and CFG2 (mode, master, bit
\* order, CS management, CS delay, swap, communication mode) as they were.
C13_OperationsKeepConfiguration ==
    [][(pc = "enabled") =>
          /\ cr1'.spe /\ cr1'.ssi
          /\ cfg1' = cfg1
          /\ cfg2' = cfg2
          /\ cr2' = cr2]_vars

C13_Witness ==
    /\ pc = "released"
    /\ nsent = 2 /\ cr1.cstart
    /\ cr1.spe /\ cr1.ssi
    /\ ier.txpie
    /\ cfg2 = cfg2_of(config, 0)

====
